---- MODULE Spec2Model ----
(***************************************************************************)
(* Model of generate_icon.py (MacClean app icon generator).                *)
(*                                                                         *)
(* The script renders one master icon with create_icon(1024), resamples it *)
(* to the ten (logical size, scale) variants of the macOS icon set, writes *)
(* Contents.json and a preview PNG.  An image is modelled by its size and  *)
(* its display list (the sequence of draw calls with their pixel           *)
(* arguments); a file by a record of its decoded content.                  *)
(***************************************************************************)
EXTENDS Integers, Sequences, FiniteSets, TLC

\* ------------------------------------------------------------ bounds ----

\* Number of states of the modelled pseudo-random generator.
RngPeriod == 8
\* Number of times the script is run one after the other.
MaxRuns == 2
\* Number of direct calls of create_icon / uses of the generator by a caller.
MaxCalls == 3

\* ------------------------------------------------- program constants ----

\* random.seed(42)
SeedValue == 42
\* create_icon(1024)
MasterSize == 1024
\* angle = -35 degrees: cos(35 deg) and sin(35 deg) in thousandths
CosMilli == 819
SinMilli == 574
\* shadow_offset = 3
shadow_offset == 3

Max(a, b) == IF a >= b THEN a ELSE b

\* int(size * 0.xyz) for a non-negative size: truncation of size * permille / 1000
Scaled(size, permille) == (size * permille) \div 1000

\* ----------------------------------------------- pseudo-random source ----
\* The process-wide generator of module random is modelled as a counter
\* based generator with RngPeriod states: seeding fixes the state from the
\* seed alone, every draw advances the state by one.

SeededNoop(state, seed) == state

\* random.seed(seed): the state after seeding, whatever it was before
Seeded(state, seed) == seed % RngPeriod

\* the state after n draws
Advance(state, n) == (state + n) % RngPeriod

\* random.randint(a, b) drawn in generator state `state`
RandInt(state, a, b) == a + ((state * 37 + 11) % (b - a + 1))

\* --------------------------------------------------- create_icon ----

\* The pixel quantities create_icon computes from size (its local variables
\* and the literal offsets and widths it passes to the draw calls).
Metrics(size) ==
  LET imac_width    == Scaled(size, 550)
      imac_height   == Scaled(size, 420)
      imac_x        == (size - imac_width) \div 2
      imac_y        == Scaled(size, 220)
      bezel         == Scaled(size, 20)
      chin_height   == Scaled(size, 45)
      stand_width   == Scaled(size, 120)
      neck_width    == Scaled(size, 60)
      handle_width  == Scaled(size, 35)
  IN  [ padding            |-> Scaled(size, 60),
        corner_radius      |-> Scaled(size, 220),
        dot_count          |-> Scaled(size, 800),
        dot_size           |-> Max(1, Scaled(size, 3)),
        imac_width         |-> imac_width,
        imac_height        |-> imac_height,
        imac_x             |-> imac_x,
        imac_y             |-> imac_y,
        screen_margin      |-> Scaled(size, 25),
        bezel              |-> bezel,
        chin_height        |-> chin_height,
        bezel_radius       |-> Scaled(size, 30),
        bezel_outset       |-> 2,
        screen_x1          |-> imac_x + bezel,
        screen_y1          |-> imac_y + bezel,
        screen_x2          |-> imac_x + imac_width - bezel,
        screen_y2          |-> imac_y + imac_height - bezel,
        screen_width       |-> imac_width - 2 * bezel,
        screen_height      |-> imac_height - 2 * bezel,
        shine_size         |-> Scaled(size, 150),
        chin_y             |-> imac_y + imac_height,
        logo_size          |-> Scaled(size, 20),
        logo_x             |-> imac_x + imac_width \div 2,
        logo_y             |-> imac_y + imac_height + chin_height \div 2,
        stand_width        |-> stand_width,
        stand_height       |-> Scaled(size, 80),
        stand_x            |-> (size - stand_width) \div 2,
        stand_y            |-> imac_y + imac_height + chin_height,
        neck_width         |-> neck_width,
        neck_height        |-> Scaled(size, 40),
        neck_x             |-> (size - neck_width) \div 2,
        neck_inset         |-> Scaled(size, 10),
        base_rise          |-> Scaled(size, 15),
        base_overhang      |-> Scaled(size, 20),
        base_height        |-> Scaled(size, 30),
        wiper_length       |-> Scaled(size, 450),
        wiper_width        |-> Scaled(size, 25),
        handle_length      |-> Scaled(size, 180),
        handle_width       |-> handle_width,
        handle_shadow_off  |-> 3,
        handle_shadow_width|-> handle_width + 2,
        highlight_off      |-> 1,
        highlight_width    |-> Max(2, (handle_width * 3) \div 10),
        grip_size          |-> Scaled(size, 25),
        blade_half_width   |-> Scaled(size, 40),
        shadow_offset      |-> shadow_offset,
        sparkle_size_1     |-> Scaled(size, 35),
        sparkle_size_2     |-> Scaled(size, 25),
        sparkle_size_3     |-> Scaled(size, 20),
        sparkle_dot_1      |-> Max(1, (Scaled(size, 35) * 3) \div 10),
        sparkle_dot_2      |-> Max(1, (Scaled(size, 25) * 3) \div 10),
        sparkle_dot_3      |-> Max(1, (Scaled(size, 20) * 3) \div 10) ]

\* The texture-dot loop: int(size * 0.8) dots, three draws each (x, y,
\* alpha), starting in generator state s0.  The result is the flat sequence
\* x1, y1, alpha1, x2, y2, alpha2, ...
TextureDots(size, s0) ==
  LET m == Metrics(size)
  IN  [ k \in 1..(3 * m.dot_count) |->
          LET st == Advance(s0, k - 1)
          IN  IF k % 3 = 0 THEN RandInt(st, 10, 30)
                           ELSE RandInt(st, m.padding, size - m.padding) ]

\* One draw call: what is drawn, the layer of the composition it belongs
\* to, the canvas it draws into and its pixel arguments.
Op(name, layer, canvas, args) ==
  [name |-> name, layer |-> layer, canvas |-> canvas, args |-> args]

\* Wiper geometry (floating point in the source): thousandths of a pixel,
\* with cos and sin of the 35 degree tilt rounded to thousandths.
WiperGeometry(size) ==
  LET m  == Metrics(size)
      cx == m.imac_x * 1000 + m.imac_width * 650
      cy == m.imac_y * 1000 + m.imac_height * 350
      wl == m.wiper_length
      hl == m.handle_length
      bw == m.blade_half_width
  IN  [ cx  |-> cx, cy |-> cy,
        hx1 |-> cx - (CosMilli * wl * 3) \div 10,
        hy1 |-> cy + (SinMilli * wl * 3) \div 10,
        hx2 |-> cx + CosMilli * hl,
        hy2 |-> cy - SinMilli * hl,
        blade_x1 |-> cx - (CosMilli * wl * 35) \div 100,
        blade_y1 |-> cy + (SinMilli * wl * 35) \div 100,
        blade_x2 |-> cx + (CosMilli * wl * 15) \div 100,
        blade_y2 |-> cy - (SinMilli * wl * 15) \div 100,
        \* perpendicular direction: cos(rad + pi/2), sin(rad + pi/2)
        px |-> SinMilli * bw,
        py |-> CosMilli * bw ]

\* The three draws of one sparkle at (sx, sy) in thousandths of a pixel.
SparkleOps(sx, sy, sparkle_size, dot) ==
  << Op("sparkle_vertical", "overlay", "result", <<sx, sy, sparkle_size>>),
     Op("sparkle_horizontal", "overlay", "result", <<sx, sy, sparkle_size>>),
     Op("sparkle_dot", "overlay", "result", <<sx, sy, dot>>) >>

\* The display list of create_icon(size): its draw calls in program order,
\* the texture dots drawn from generator state s0.
DrawOps(size, s0) ==
  LET m == Metrics(size)
      g == WiperGeometry(size)
      o == m.shadow_offset * 1000
  IN
  << \* background
     Op("bg_gradient", "background", "bg_img", <<size>>),
     Op("bg_mask", "background", "mask",
        <<m.padding, m.padding, size - m.padding, size - m.padding,
          m.corner_radius>>),
     Op("texture_dots", "overlay", "img",
        <<m.dot_size>> \o TextureDots(size, s0)),
     Op("paste_background", "background", "result", <<size>>),
     Op("paste_texture", "overlay", "result", <<size>>),
     \* iMac
     Op("bezel_frame", "body", "result",
        <<m.imac_x - m.bezel_outset, m.imac_y - m.bezel_outset,
          m.imac_x + m.imac_width + m.bezel_outset,
          m.imac_y + m.imac_height + m.chin_height + m.bezel_outset,
          m.bezel_radius>>),
     Op("body", "body", "result",
        <<m.imac_x, m.imac_y, m.imac_x + m.imac_width,
          m.imac_y + m.imac_height + m.chin_height, m.bezel_radius>>),
     Op("screen_gradient", "screen", "result",
        <<m.screen_x1, m.screen_y1, m.screen_x2, m.screen_y2,
          m.screen_height>>),
     Op("screen_shine", "screen", "result",
        <<m.screen_x1, m.screen_y1, m.shine_size>>),
     Op("logo_dot", "body", "result", <<m.logo_x, m.logo_y, m.logo_size>>),
     \* stand
     Op("stand_neck", "body", "result",
        <<m.neck_x, m.stand_y, m.neck_x + m.neck_width,
          m.stand_x + m.stand_width - m.neck_inset,
          m.stand_y + m.neck_height + m.stand_height,
          m.stand_x + m.neck_inset>>),
     Op("stand_base", "body", "result",
        <<m.stand_x - m.base_overhang,
          m.stand_y + m.neck_height + m.stand_height - m.base_rise,
          m.stand_x + m.stand_width + m.base_overhang,
          m.stand_y + m.neck_height + m.stand_height - m.base_rise
            + m.base_height>>),
     \* cleaning wiper
     Op("handle_shadow", "accessory", "result",
        <<g.hx1 + m.handle_shadow_off * 1000, g.hy1 + m.handle_shadow_off * 1000,
          g.hx2 + m.handle_shadow_off * 1000, g.hy2 + m.handle_shadow_off * 1000,
          m.handle_shadow_width>>),
     Op("handle", "accessory", "result",
        <<g.hx1, g.hy1, g.hx2, g.hy2, m.handle_width>>),
     Op("handle_highlight", "accessory", "result",
        <<g.hx1 - m.highlight_off * 1000, g.hy1 - m.highlight_off * 1000,
          g.hx2 - m.highlight_off * 1000, g.hy2 - m.highlight_off * 1000,
          m.highlight_width>>),
     Op("handle_grip", "accessory", "result", <<g.hx2, g.hy2, m.grip_size>>),
     Op("blade_shadow", "accessory", "result",
        <<g.blade_x1 + g.px + o, g.blade_y1 + g.py + o,
          g.blade_x1 - g.px + o, g.blade_y1 - g.py + o,
          g.blade_x2 - g.px + o, g.blade_y2 - g.py + o,
          g.blade_x2 + g.px + o, g.blade_y2 + g.py + o>>),
     Op("blade", "accessory", "result",
        <<g.blade_x1 + g.px, g.blade_y1 + g.py,
          g.blade_x1 - g.px, g.blade_y1 - g.py,
          g.blade_x2 - g.px, g.blade_y2 - g.py,
          g.blade_x2 + g.px, g.blade_y2 + g.py>>),
     Op("blade_edge", "accessory", "result",
        <<g.blade_x1 - (g.px * 7) \div 10, g.blade_y1 - (g.py * 7) \div 10,
          g.blade_x1 - g.px, g.blade_y1 - g.py,
          g.blade_x2 - g.px, g.blade_y2 - g.py,
          g.blade_x2 - (g.px * 7) \div 10, g.blade_y2 - (g.py * 7) \div 10>>) >>
  \o \* sparkles
  SparkleOps(m.imac_x * 1000 + m.imac_width * 200,
             m.imac_y * 1000 + m.imac_height * 250,
             m.sparkle_size_1, m.sparkle_dot_1)
  \o
  SparkleOps(m.imac_x * 1000 + m.imac_width * 150,
             m.imac_y * 1000 + m.imac_height * 550,
             m.sparkle_size_2, m.sparkle_dot_2)
  \o
  SparkleOps(m.imac_x * 1000 + m.imac_width * 350,
             m.imac_y * 1000 + m.imac_height * 150,
             m.sparkle_size_3, m.sparkle_dot_3)
  \o \* clean streak
  << Op("clean_streak", "overlay", "clean_mask",
        <<m.screen_x1, m.screen_y1,
          m.screen_x1 + (m.screen_width * 4) \div 10,
          m.screen_y1 + (m.screen_height * 7) \div 10>>),
     Op("composite_clean_streak", "overlay", "result", <<size>>) >>

\* An image: its pixel size and what was drawn into it.  base is the size
\* the display list was rendered at (it differs from size after a resize).
NoImage == [size |-> 0, base |-> 0, ops |-> <<>>]

\* the sparkles drawn before the wiper instead of after it
create_icon_SparklesFirst(size, rng_in) ==
  LET ops == DrawOps(size, Seeded(rng_in, SeedValue))
  IN  [size |-> size, base |-> size,
       ops  |-> SubSeq(ops, 1, 12) \o SubSeq(ops, 20, 28)
                  \o SubSeq(ops, 13, 19) \o SubSeq(ops, 29, Len(ops))]

\* the texture drawn from whatever state the generator is in
create_icon_NoSeed(size, rng_in) ==
  [size |-> size, base |-> size, ops |-> DrawOps(size, rng_in)]

\* The image create_icon(size) returns when the generator is in state
\* rng_in at the call.
create_icon(size, rng_in) ==
  [size |-> size, base |-> size,
   ops  |-> DrawOps(size, Seeded(rng_in, SeedValue))]

\* The generator state create_icon(size) leaves behind.
create_icon_rng(size, rng_in) ==
  Advance(Seeded(rng_in, SeedValue), 3 * Metrics(size).dot_count)

\* ------------------------------------------------------------ main ----

\* sizes: the (logical size, scale) pairs of the macOS icon set
sizes ==
  << <<16, 1>>, <<16, 2>>, <<32, 1>>, <<32, 2>>, <<128, 1>>, <<128, 2>>,
     <<256, 1>>, <<256, 2>>, <<512, 1>>, <<512, 2>> >>

iconset_path == "MacClean/Assets.xcassets/AppIcon.appiconset"
preview_path == "icon_preview.png"

\* The directories os.makedirs(iconset_path) creates, outermost first.
DirChain ==
  << "MacClean", "MacClean/Assets.xcassets", iconset_path >>

DirPrefix(n) == { DirChain[k] : k \in 1..n }

\* os.path.join(dir, name)
JoinPath(dir, name) == dir \o "/" \o name

ActualSizeNoScale(base_size, scale) == base_size

\* actual_size = base_size * scale
ActualSize(base_size, scale) == base_size * scale

FilenameNoScale(base_size, scale) ==
  "icon_" \o ToString(base_size) \o "x" \o ToString(base_size) \o ".png"

FilenameAlwaysScale(base_size, scale) ==
  "icon_" \o ToString(base_size) \o "x" \o ToString(base_size)
    \o "@" \o ToString(scale) \o "x" \o ".png"

\* filename = f"icon_{base_size}x{base_size}" [+ f"@{scale}x"] + ".png"
Filename(base_size, scale) ==
  "icon_" \o ToString(base_size) \o "x" \o ToString(base_size)
    \o (IF scale > 1 THEN "@" \o ToString(scale) \o "x" ELSE "")
    \o ".png"

ManifestEntryPlainName(base_size, scale, filename) ==
  [ filename |-> FilenameNoScale(base_size, scale),
    idiom    |-> "mac",
    scale    |-> ToString(scale) \o "x",
    size     |-> ToString(base_size) \o "x" \o ToString(base_size) ]

\* the dictionary appended to contents_images
ManifestEntry(base_size, scale, filename) ==
  [ filename |-> filename,
    idiom    |-> "mac",
    scale    |-> ToString(scale) \o "x",
    size     |-> ToString(base_size) \o "x" \o ToString(base_size) ]

\* master.resize((n, n), Image.LANCZOS): the same drawing resampled to n
\* pixels (an image resized to its own size is an equal copy)
Resize(img, n) == [img EXCEPT !.size = n]

\* File contents.  A PNG decodes to the image saved; Contents.json to the
\* dictionary dumped.  Stale stands for bytes that were there before the
\* run, Partial for what a failed write may leave behind.
PngFile(img) == [kind |-> "png", img |-> img]
JsonFile(images) ==
  [kind |-> "json", images |-> images,
   info |-> [author |-> "xcode", version |-> 1]]
Stale   == [kind |-> "stale"]
Partial == [kind |-> "partial"]

\* The filesystem after path is given content c.
Put(files, path, c) ==
  [ p \in (DOMAIN files) \cup {path} |-> IF p = path THEN c ELSE files[p] ]

OnErrorContinue(next) == next

\* main has no try/except: an exception raised by a filesystem operation
\* propagates out of main, whatever step would have come next.
OnError(next) == "failed"

\* ------------------------------------------------------------ state ----

VARIABLES
  pc,               \* position in main ("lib": imported, main not running)
  run,              \* number of the current run of the script
  dirs,             \* the directories that exist
  fs,               \* the files that exist: path -> content
  rng,              \* state of the process-wide generator of module random
  master,           \* main's local: the master image
  idx,              \* main's loop position in sizes
  contents_images,  \* main's local: the manifest entries collected so far
  log,              \* the filesystem operations of this run, in order
  start_state,      \* <<dirs, fs>> when this run started
  start_done,       \* whether this run started right after a completed run
  prev_paths,       \* the paths the previous run wrote
  icon,             \* the image the latest call of create_icon returned
  calls,            \* number of calls made by a caller of the module
  returned,         \* size -> the images create_icon returned for it
  entries,          \* size -> the generator states it was called in
  locals            \* the pixel quantities of the calls so far

vars ==
  << pc, run, dirs, fs, rng, master, idx, contents_images, log, start_state,
     start_done, prev_paths, icon, calls, returned, entries,
     locals >>

\* The sizes a caller of the module asks create_icon for.
IconSizes == {16, 32, 64}

RngStates == 0..(RngPeriod - 1)

EmptyFs == [p \in {} |-> Stale]

\* The names of the ten PNG files of the icon set.
OutputNames == { Filename(sizes[k][1], sizes[k][2]) : k \in 1..Len(sizes) }

\* Files that may lie in the iconset directory before the first run.
InitialIconsetFiles ==
  { {},
    {"stray.png"},
    {"Contents.json"},
    {"icon_16x16.png", "stray.png"},
    OutputNames \cup {"Contents.json"} }

FilesOf(names, preview) ==
  [ p \in { JoinPath(iconset_path, n) : n \in names }
          \cup (IF preview THEN {preview_path} ELSE {}) |-> Stale ]

\* what create_icon's bookkeeping is before any call
NoCalls ==
  /\ icon = NoImage
  /\ calls = 0
  /\ returned = [s \in IconSizes |-> {}]
  /\ entries = [s \in IconSizes |-> {}]
  /\ locals = {}

\* The script is started: any generator state, and a working directory in
\* which the iconset directory is absent (wholly or in part), empty, or
\* holds older files.
Init ==
  /\ pc = "makedirs"
  /\ run = 1
  /\ rng \in RngStates
  /\ \E n \in 0..Len(DirChain), preview \in BOOLEAN :
       /\ dirs = DirPrefix(n)
       /\ \E names \in (IF n = Len(DirChain) THEN InitialIconsetFiles ELSE {{}}) :
            fs = FilesOf(names, preview)
  /\ master = NoImage
  /\ idx = 1
  /\ contents_images = <<>>
  /\ log = <<>>
  /\ start_state = <<dirs, fs>>
  /\ start_done = FALSE
  /\ prev_paths = {}
  /\ NoCalls

LibVars == << calls, returned, entries, locals >>
RunVars == << run, start_state, start_done, prev_paths >>

\* os.makedirs(iconset_path, exist_ok=True)
MakeDirs ==
  /\ pc = "makedirs"
  /\ \E ok \in BOOLEAN :
       /\ log' = Append(log, [op |-> "makedirs", dir |-> "", name |-> iconset_path,
                              path |-> iconset_path, ok |-> ok])
       /\ IF ok
            THEN /\ dirs' = dirs \cup DirPrefix(Len(DirChain))
                 /\ pc' = "render"
            ELSE /\ \E n \in 0..(Len(DirChain) - 1) :
                      /\ dirs \subseteq DirPrefix(n)
                      /\ dirs' = DirPrefix(n)
                 /\ pc' = OnError("render")
  /\ UNCHANGED << fs, rng, master, idx, contents_images, icon >>
  /\ UNCHANGED RunVars
  /\ UNCHANGED LibVars

\* master = create_icon(1024)
RenderMaster ==
  /\ pc = "render"
  /\ icon' = create_icon(MasterSize, rng)
  /\ master' = icon'
  /\ rng' = create_icon_rng(MasterSize, rng)
  /\ pc' = "save_master"
  /\ UNCHANGED << dirs, fs, idx, contents_images, log >>
  /\ UNCHANGED RunVars
  /\ UNCHANGED LibVars

\* image.save(path) / open(path, "w") + json.dump: one file write.  It
\* succeeds only in an existing directory; a failed write leaves the file
\* as it was or leaves a partial file.
WriteFile(op, dir, name, content, next) ==
  LET path == IF dir = "" THEN name ELSE JoinPath(dir, name)
  IN  \E ok \in BOOLEAN :
        /\ ok => (dir = "" \/ dir \in dirs)
        /\ log' = Append(log, [op |-> op, dir |-> dir, name |-> name,
                               path |-> path, ok |-> ok])
        /\ IF ok
             THEN /\ fs' = Put(fs, path, content)
                  /\ pc' = next
             ELSE /\ fs' \in {fs, Put(fs, path, Partial)}
                  /\ pc' = OnError(next)

\* master.save(os.path.join(iconset_path, "icon_512x512@2x.png"))
SaveMaster ==
  /\ pc = "save_master"
  /\ WriteFile("save", iconset_path, "icon_512x512@2x.png", PngFile(master),
               "export")
  /\ UNCHANGED << dirs, rng, master, idx, contents_images, icon >>
  /\ UNCHANGED RunVars
  /\ UNCHANGED LibVars

\* one iteration of: for base_size, scale in sizes
ExportOne ==
  /\ pc = "export"
  /\ idx <= Len(sizes)
  /\ LET base_size   == sizes[idx][1]
         scale       == sizes[idx][2]
         actual_size == ActualSize(base_size, scale)
         filename    == Filename(base_size, scale)
         icn         == Resize(master, actual_size)
     IN  /\ WriteFile("save", iconset_path, filename, PngFile(icn),
                      IF idx = Len(sizes) THEN "manifest" ELSE "export")
         /\ IF log'[Len(log')].ok
              THEN /\ contents_images' =
                        Append(contents_images,
                               ManifestEntry(base_size, scale, filename))
                   /\ idx' = idx + 1
              ELSE UNCHANGED << contents_images, idx >>
  /\ UNCHANGED << dirs, rng, master, icon >>
  /\ UNCHANGED RunVars
  /\ UNCHANGED LibVars

\* with open(.../Contents.json, "w") as f: json.dump(contents, f, indent=2)
WriteManifest ==
  /\ pc = "manifest"
  /\ WriteFile("dump", iconset_path, "Contents.json", JsonFile(contents_images),
               "preview")
  /\ UNCHANGED << dirs, rng, master, idx, contents_images, icon >>
  /\ UNCHANGED RunVars
  /\ UNCHANGED LibVars

\* master.save("icon_preview.png")
SavePreview ==
  /\ pc = "preview"
  /\ WriteFile("save", "", preview_path, PngFile(master), "done")
  /\ UNCHANGED << dirs, rng, master, idx, contents_images, icon >>
  /\ UNCHANGED RunVars
  /\ UNCHANGED LibVars

\* The script is run again, in a new process, on the files a completed run
\* left.  (What a failed run leaves is, to the next run, older files in the
\* directory: Init covers it.)
Rerun ==
  /\ pc = "done"
  /\ run < MaxRuns
  /\ run' = run + 1
  /\ pc' = "makedirs"
  /\ rng' \in RngStates
  /\ master' = NoImage
  /\ idx' = 1
  /\ contents_images' = <<>>
  /\ log' = <<>>
  /\ start_state' = <<dirs, fs>>
  /\ start_done' = TRUE
  /\ prev_paths' = { log[k].path : k \in { j \in 1..Len(log) : log[j].ok } }
  /\ icon' = NoImage
  /\ UNCHANGED << dirs, fs >>
  /\ UNCHANGED LibVars

\* ------------------------------------------- the module as a library ----

\* The module is imported and create_icon is called by other code, which
\* may use the process-wide generator itself between the calls.
InitLib ==
  /\ pc = "lib"
  /\ run = 1
  /\ rng \in RngStates
  /\ dirs = {}
  /\ fs = EmptyFs
  /\ master = NoImage
  /\ idx = 1
  /\ contents_images = <<>>
  /\ log = <<>>
  /\ start_state = <<dirs, fs>>
  /\ start_done = FALSE
  /\ prev_paths = {}
  /\ NoCalls

MainVars ==
  << pc, run, dirs, fs, master, idx, contents_images, log, start_state,
     start_done, prev_paths >>

\* create_icon(size), called directly
CallCreateIcon(size) ==
  /\ pc = "lib"
  /\ calls < MaxCalls
  /\ calls' = calls + 1
  /\ icon' = create_icon(size, rng)
  /\ rng' = create_icon_rng(size, rng)
  /\ returned' = [returned EXCEPT ![size] = @ \cup {icon'}]
  /\ entries' = [entries EXCEPT ![size] = @ \cup {rng}]
  /\ locals' = locals \cup {[size |-> size, q |-> Metrics(size)]}
  /\ UNCHANGED MainVars

\* the caller draws a random number of its own
CallerUsesRandom ==
  /\ pc = "lib"
  /\ calls < MaxCalls
  /\ calls' = calls + 1
  /\ rng' = Advance(rng, 1)
  /\ UNCHANGED << icon, returned, entries, locals >>
  /\ UNCHANGED MainVars

NextLib ==
  \/ \E size \in IconSizes : CallCreateIcon(size)
  \/ CallerUsesRandom

SpecIcon == InitLib /\ [][NextLib]_vars

Next ==
  \/ MakeDirs
  \/ RenderMaster
  \/ SaveMaster
  \/ ExportOne
  \/ WriteManifest
  \/ SavePreview
  \/ Rerun

Spec == Init /\ [][Next]_vars

\* ----------------------------------------------------------- claims ----

\* The icon set the platform requires: logical size S, scale K, file name.
RequiredIconSet ==
  { [S |-> 16,  K |-> 1, name |-> "icon_16x16.png"],
    [S |-> 16,  K |-> 2, name |-> "icon_16x16@2x.png"],
    [S |-> 32,  K |-> 1, name |-> "icon_32x32.png"],
    [S |-> 32,  K |-> 2, name |-> "icon_32x32@2x.png"],
    [S |-> 128, K |-> 1, name |-> "icon_128x128.png"],
    [S |-> 128, K |-> 2, name |-> "icon_128x128@2x.png"],
    [S |-> 256, K |-> 1, name |-> "icon_256x256.png"],
    [S |-> 256, K |-> 2, name |-> "icon_256x256@2x.png"],
    [S |-> 512, K |-> 1, name |-> "icon_512x512.png"],
    [S |-> 512, K |-> 2, name |-> "icon_512x512@2x.png"] }

IconsetFile(name) == "MacClean/Assets.xcassets/AppIcon.appiconset/" \o name

\* the file writes of this run (every filesystem operation but makedirs)
WriteIndices == { k \in 1..Len(log) : log[k].op # "makedirs" }

\* C1: when main completes, for every (S, K) of the size list the PNG at
\* that pair's output path is S*K pixels wide and high.
C1_ExactPixelSize ==
  pc = "done" =>
    \A e \in RequiredIconSet :
      /\ IconsetFile(e.name) \in DOMAIN fs
      /\ fs[IconsetFile(e.name)].kind = "png"
      /\ fs[IconsetFile(e.name)].img.size = e.S * e.K

C1_Witness ==
  /\ pc = "done"
  /\ fs[IconsetFile("icon_16x16@2x.png")].img.size = 32
  /\ fs[IconsetFile("icon_512x512@2x.png")].img.size = 1024

\* C2: when main completes, the filenames listed in Contents.json are
\* exactly the PNG files written into the iconset directory in that run,
\* the master save included.
C2_ManifestMatchesFiles ==
  pc = "done" =>
    LET manifest == fs[IconsetFile("Contents.json")]
    IN  /\ manifest.kind = "json"
        /\ { manifest.images[k].filename : k \in 1..Len(manifest.images) }
             = { log[k].name :
                   k \in { j \in WriteIndices :
                             /\ log[j].op = "save"
                             /\ log[j].dir = iconset_path
                             /\ log[j].ok } }

C2_Witness ==
  /\ pc = "done"
  /\ Len(fs[IconsetFile("Contents.json")].images) = 10
  /\ Cardinality({ k \in WriteIndices : log[k].dir = iconset_path
                                          /\ log[k].op = "save" }) = 11

\* C3: a successful run writes exactly the ten PNGs of the required icon
\* set and Contents.json in the iconset directory and icon_preview.png in
\* the working directory, and no other path.
C3_ExactOutputSet ==
  pc = "done" =>
    /\ { log[k].path : k \in WriteIndices }
         = { IconsetFile(e.name) : e \in RequiredIconSet }
             \cup { IconsetFile("Contents.json"), "icon_preview.png" }
    /\ Cardinality({ log[k].name :
                       k \in { j \in WriteIndices : log[j].dir = iconset_path
                                                      /\ log[j].op = "save" } })
         = 10

C3_Witness ==
  /\ pc = "done"
  /\ Cardinality({ log[k].path : k \in WriteIndices }) = 12

\* C4 (as claimed): within one run no two write operations target the
\* same file path.
C4_NoTwoWritesSamePath ==
  \A j, k \in WriteIndices : j # k => log[j].path # log[k].path

\* C4 (amended): within one run the only two writes that target the same
\* path are the master save and the export loop's save for (512, 2), both
\* to icon_512x512@2x.png; every other pair of writes differs in path.
C4_OnlyMasterSaveCollides ==
  \A j, k \in WriteIndices :
    (j < k /\ log[j].path = log[k].path) =>
      /\ j = 2
      /\ k = Len(sizes) + 2
      /\ log[j].path = IconsetFile("icon_512x512@2x.png")

C4_Witness ==
  /\ pc = "done"
  /\ Len(log) = 14
  /\ log[2].path = log[12].path

\* C5: create_icon leaves the state outside the returned image, the
\* process-wide generator state in particular, as it found it.
C5_GeneratorStateUntouched ==
  [][pc = "render" => rng' = rng]_vars

\* C6: any two calls of create_icon with the same size return identical
\* pixels, whatever the generator state before each call and whatever
\* was called in between.
C6_Deterministic ==
  \A s \in IconSizes : Cardinality(returned[s]) <= 1

C6_Witness ==
  \E s \in IconSizes :
    /\ Cardinality(entries[s]) >= 2
    /\ returned[s] # {}

\* The offsets and stroke widths among the quantities of Metrics: the
\* distances and thicknesses that the scale factor is meant to govern.
OffsetsAndWidths ==
  { "padding", "corner_radius", "dot_size", "imac_width", "imac_height",
    "imac_y", "bezel", "chin_height", "bezel_radius", "bezel_outset",
    "shine_size", "logo_size", "stand_width", "stand_height", "neck_width",
    "neck_height", "neck_inset", "base_rise", "base_overhang", "base_height",
    "wiper_length", "handle_length", "handle_width", "handle_shadow_off",
    "handle_shadow_width", "highlight_off", "highlight_width", "grip_size",
    "blade_half_width", "shadow_offset", "sparkle_size_1", "sparkle_size_2",
    "sparkle_size_3", "sparkle_dot_1", "sparkle_dot_2", "sparkle_dot_3" }

\* C7: every offset and stroke width create_icon draws with is a fixed
\* fraction of size: for each quantity there is one fraction p/1000 such
\* that at every requested size the quantity is int(size * p/1000).
C7_UniformScale ==
  \A n \in OffsetsAndWidths :
    \E p \in 0..1000 :
      \A l \in locals : l.q[n] = Scaled(l.size, p)

\* the layers in the composition order of the specification
LayerRank(layer) ==
  CASE layer = "background" -> 1
    [] layer = "body"       -> 2
    [] layer = "screen"     -> 3
    [] layer = "face"       -> 4
    [] layer = "accessory"  -> 5
    [] layer = "overlay"    -> 6

\* C8 (as claimed): no draw of an earlier layer happens after a draw of a
\* later layer, in the order background, body, screen, face features,
\* accessories, decorative overlays.
C8_LayerOrder ==
  \A j, k \in 1..Len(icon.ops) :
    j < k => LayerRank(icon.ops[j].layer) <= LayerRank(icon.ops[k].layer)

\* the draws that create_icon makes out of the layer order
OutOfLayerOrder ==
  { "texture_dots", "paste_texture", "logo_dot", "stand_neck", "stand_base" }

\* C8 (amended): the texture dots are drawn and composited with the
\* background, before any body draw, and the logo dot and the stand are
\* drawn after the screen and before the wiper; every other draw follows
\* the layer order, and sparkles and clean streak come after every body,
\* screen and accessory draw.
C8_LayerOrderButDotsAndStand ==
  LET ops == icon.ops
      n   == Len(ops)
  IN  /\ \A j, k \in 1..n :
           (j < k /\ ops[j].name \notin OutOfLayerOrder
                  /\ ops[k].name \notin OutOfLayerOrder)
             => LayerRank(ops[j].layer) <= LayerRank(ops[k].layer)
      /\ \A j, k \in 1..n :
           (ops[j].name \in {"texture_dots", "paste_texture"}
              /\ ops[k].layer \in {"body", "screen", "accessory"})
             => j < k
      /\ \A j, k \in 1..n :
           (ops[j].name \in {"logo_dot", "stand_neck", "stand_base"}
              /\ ops[k].layer = "screen")
             => k < j
      /\ \A j, k \in 1..n :
           (ops[j].name \in {"logo_dot", "stand_neck", "stand_base"}
              /\ ops[k].layer \in {"accessory", "overlay"}
              /\ ops[k].name \notin OutOfLayerOrder)
             => j < k

C8_Witness ==
  /\ icon # NoImage
  /\ Len(icon.ops) = 30
  /\ icon.ops[3].name = "texture_dots"
  /\ icon.ops[11].name = "stand_neck"

\* C9: a run of main that starts on the files a completed run left ends
\* with exactly the same directories and files, contents included, and
\* writes every path the earlier run wrote.
C9_Idempotent ==
  (pc = "done" /\ start_done) =>
    /\ <<dirs, fs>> = start_state
    /\ prev_paths = { log[k].path : k \in { j \in 1..Len(log) : log[j].ok } }

C9_Witness ==
  /\ pc = "done"
  /\ run = 2
  /\ start_done
  /\ IconsetFile("icon_16x16.png") \in DOMAIN fs

\* C10: a failed filesystem operation is the last operation of its run:
\* main stops there, retries nothing and writes nothing after it, so
\* Contents.json is never written after a failed PNG save.
C10_FailureIsFatal ==
  /\ \A k \in 1..Len(log) :
       ~log[k].ok => (k = Len(log) /\ pc = "failed")
  /\ pc = "failed" => (Len(log) > 0 /\ ~log[Len(log)].ok)
  /\ \A j, k \in 1..Len(log) :
       (j < k /\ log[j].op = "save" /\ ~log[j].ok)
         => log[k].name # "Contents.json"

C10_Witness ==
  /\ pc = "failed"
  /\ Len(log) = 5
  /\ log[5].op = "save"
  /\ ~log[5].ok
  /\ IconsetFile("Contents.json") \notin DOMAIN fs
====
